---------------------------- MODULE Spec2Model ----------------------------
(***************************************************************************)
(* Model of the Black-Scholes Streamlit application (BS_streamlit_app.py)  *)
(* and of the toolkit functions it imports (equities_options_toolkit.py).  *)
(*                                                                         *)
(* Python and numpy floats are modelled as fixed-point numbers with four   *)
(* decimals (the integer n stands for n / SCALE) extended with the IEEE    *)
(* specials NaN, +inf and -inf.  log, exp, sqrt and the normal cdf/pdf are *)
(* computed on that grid (series, integer square root, a tabulated cdf),   *)
(* rounding down.  Every product and quotient is arranged to stay inside   *)
(* the 32-bit integers of the model checker.                               *)
(***************************************************************************)
EXTENDS Integers, Sequences, FiniteSets, TLC

\* ------------------------------------------------------------------------
\* Fixed-point arithmetic on finite values
\* ------------------------------------------------------------------------

\* One unit: the integer n stands for the real number n / SCALE.
SCALE == 10^4

Abs(n) == IF n < 0 THEN -n ELSE n

Sgn(n) == IF n < 0 THEN -1 ELSE IF n > 0 THEN 1 ELSE 0

\* floor(a * b / SCALE), the second factor being the one of smaller magnitude.
MulSplit(a, b) == (a \div SCALE) * b + ((a % SCALE) * b) \div SCALE

\* Float product a * b of two finite values (commutative, as in IEEE).
Mul(a, b) == IF Abs(a) < Abs(b) THEN MulSplit(b, a) ELSE MulSplit(a, b)

\* The first n decimal digits of r / b, for 0 <= r < b.
RECURSIVE FracDigits(_, _, _)
FracDigits(r, b, n) ==
    IF n = 0 THEN 0
    ELSE ((r * 10) \div b) * 10^(n - 1) + FracDigits((r * 10) % b, b, n - 1)

\* floor(a * SCALE / b) for b > 0.
DivPos(a, b) == (a \div b) * SCALE + FracDigits(a % b, b, 4)

\* Float quotient a / b of two finite values, b # 0.
Div(a, b) == IF b < 0 THEN DivPos(-a, -b) ELSE DivPos(a, b)

\* floor(sqrt(n)) by bisection on lo..hi.
RECURSIVE ISqrtIter(_, _, _)
ISqrtIter(n, lo, hi) ==
    IF lo >= hi THEN lo
    ELSE LET mid == (lo + hi + 1) \div 2
         IN  IF mid * mid <= n THEN ISqrtIter(n, mid, hi)
             ELSE ISqrtIter(n, lo, mid - 1)

\* numpy.sqrt on a finite value x >= 0.
Sqrt(x) == ISqrtIter(x * SCALE, 0, 46340)

\* ln of m, SCALE <= m < 2 * SCALE: 2 * (z + z^3/3 + z^5/5 + z^7/7),
\* z = (m - 1) / (m + 1).
LnMantissa(m) ==
    LET z  == Div(m - SCALE, m + SCALE)
        z2 == Mul(z, z)
        z3 == Mul(z, z2)
        z5 == Mul(z3, z2)
        z7 == Mul(z5, z2)
    IN  2 * (z + z3 \div 3 + z5 \div 5 + z7 \div 7)

\* numpy.log on a finite value x > 0 (ln 2 = 0.6931).
RECURSIVE Ln(_)
Ln(x) ==
    IF x >= 2 * SCALE THEN 6931 + Ln(x \div 2)
    ELSE IF x < SCALE THEN Ln(2 * x) - 6931
    ELSE LnMantissa(x)

\* numpy.exp on a finite value: Taylor series on [-1/2, 1/2], squaring
\* outside.
RECURSIVE Exp(_)
Exp(x) ==
    IF 2 * Abs(x) > SCALE
    THEN LET h == Exp(x \div 2) IN Mul(h, h)
    ELSE LET x2 == Mul(x, x)
             x3 == Mul(x2, x)
             x4 == Mul(x3, x)
             x5 == Mul(x4, x)
         IN  SCALE + x + x2 \div 2 + x3 \div 6 + x4 \div 24 + x5 \div 120

\* The standard normal cdf at 0.0, 0.1, ..., 4.1.
CdfTable ==
    << 5000, 5398, 5793, 6179, 6554, 6915, 7257, 7580, 7881, 8159,
       8413, 8643, 8849, 9032, 9192, 9332, 9452, 9554, 9641, 9713,
       9772, 9821, 9861, 9893, 9918, 9938, 9953, 9965, 9974, 9981,
       9987, 9990, 9993, 9995, 9997, 9998, 9998, 9999, 9999, 10000,
       10000, 10000 >>

\* The cdf for x >= 0: linear interpolation in the table, 1 from 4.0 on.
CdfPos(x) ==
    IF x >= 4 * SCALE THEN SCALE
    ELSE LET i  == x \div 1000
             lo == CdfTable[i + 1]
             hi == CdfTable[i + 2]
         IN  lo + ((hi - lo) * (x % 1000)) \div 1000

\* scipy.stats.norm.cdf on a finite value.
Cdf(x) == IF x < 0 THEN SCALE - CdfPos(-x) ELSE CdfPos(x)

\* scipy.stats.norm.pdf on a finite value: exp(-x^2 / 2) / sqrt(2 pi),
\* 0 beyond |x| = 8.
Pdf(x) ==
    IF Abs(x) > 8 * SCALE THEN 0
    ELSE Mul(3989, Exp(-(Mul(x, x) \div 2)))

\* ------------------------------------------------------------------------
\* Floats: finite fixed-point values and the IEEE specials
\* ------------------------------------------------------------------------

F(n) == [k |-> "fin", v |-> n]

NaN == [k |-> "nan", v |-> 0]

PInf == [k |-> "inf", v |-> 1]

NInf == [k |-> "inf", v |-> -1]

\* An attribute or a variable that has not been assigned.
Unset == [k |-> "unset", v |-> 0]

Inf(s) == IF s < 0 THEN NInf ELSE PInf

IsFin(x) == x.k = "fin"

IsNaN(x) == x.k = "nan"

\* The sign of a float that is not NaN: -1, 0 or 1.
FSgn(x) == Sgn(x.v)

FNeg(x) == IF IsNaN(x) THEN NaN ELSE [x EXCEPT !.v = -x.v]

FAdd(x, y) ==
    IF IsNaN(x) \/ IsNaN(y) THEN NaN
    ELSE IF IsFin(x) /\ IsFin(y) THEN F(x.v + y.v)
    ELSE IF IsFin(x) THEN y
    ELSE IF IsFin(y) THEN x
    ELSE IF x.v = y.v THEN x ELSE NaN

FSub(x, y) == FAdd(x, FNeg(y))

FMul(x, y) ==
    IF IsNaN(x) \/ IsNaN(y) THEN NaN
    ELSE IF IsFin(x) /\ IsFin(y) THEN F(Mul(x.v, y.v))
    ELSE IF FSgn(x) * FSgn(y) = 0 THEN NaN
    ELSE Inf(FSgn(x) * FSgn(y))

\* Division of numpy floats: x / 0 is an infinity or NaN, never an error.
FDiv(x, y) ==
    IF IsNaN(x) \/ IsNaN(y) THEN NaN
    ELSE IF IsFin(y) /\ y.v = 0
         THEN IF FSgn(x) = 0 THEN NaN ELSE Inf(FSgn(x))
    ELSE IF IsFin(x) /\ IsFin(y) THEN F(Div(x.v, y.v))
    ELSE IF IsFin(x) THEN F(0)
    ELSE IF IsFin(y) THEN Inf(FSgn(x) * FSgn(y))
    ELSE NaN

\* numpy.log: -inf at 0, NaN below 0.
FLog(x) ==
    IF IsNaN(x) THEN NaN
    ELSE IF IsFin(x)
         THEN IF x.v > 0 THEN F(Ln(x.v)) ELSE IF x.v = 0 THEN NInf ELSE NaN
    ELSE IF x.v > 0 THEN PInf ELSE NaN

\* numpy.sqrt: NaN below 0.
FSqrt(x) ==
    IF IsNaN(x) THEN NaN
    ELSE IF IsFin(x) THEN (IF x.v >= 0 THEN F(Sqrt(x.v)) ELSE NaN)
    ELSE IF x.v > 0 THEN PInf ELSE NaN

FExp(x) ==
    IF IsNaN(x) THEN NaN
    ELSE IF IsFin(x) THEN F(Exp(x.v))
    ELSE IF x.v > 0 THEN PInf ELSE F(0)

FCdf(x) ==
    IF IsNaN(x) THEN NaN
    ELSE IF IsFin(x) THEN F(Cdf(x.v))
    ELSE IF x.v > 0 THEN F(SCALE) ELSE F(0)

FPdf(x) ==
    IF IsNaN(x) THEN NaN
    ELSE IF IsFin(x) THEN F(Pdf(x.v))
    ELSE F(0)

\* x < y as Python evaluates it: False as soon as one side is NaN.
FLt(x, y) ==
    /\ ~IsNaN(x)
    /\ ~IsNaN(y)
    /\ IF IsFin(x) /\ IsFin(y) THEN x.v < y.v
       ELSE IF IsFin(x) THEN y.v > 0
       ELSE IF IsFin(y) THEN x.v < 0
       ELSE x.v < y.v

FLe(x, y) == FLt(x, y) \/ (~IsNaN(x) /\ x = y)

\* Python's min(a, b): b when b < a, else a.
PyMin(a, b) == IF FLt(b, a) THEN b ELSE a

\* Python's int() on a finite float: truncation toward zero.
IntTrunc(x) == Sgn(x.v) * (Abs(x.v) \div SCALE)

\* The floor of a finite float.
Floor(x) == x.v \div SCALE

\* ------------------------------------------------------------------------
\* class BlackScholes (BS_streamlit_app.py)
\* ------------------------------------------------------------------------

\* BlackScholes.__init__: the first argument is taken as a number of days
\* and stored in years; the other four are stored as given.
BlackScholes(time_to_maturity, strike, current_price, volatility, interest_rate) ==
    [ time_to_maturity |-> FDiv(time_to_maturity, F(365 * SCALE)),
      strike           |-> strike,
      current_price    |-> current_price,
      volatility       |-> volatility,
      interest_rate    |-> interest_rate ]

\* call_price of calculate_prices; discounted is strike * exp(-(r * T)).
CallPrice(current_price, discounted, d1, d2) ==
    FSub(FMul(current_price, FCdf(d1)), FMul(discounted, FCdf(d2)))

\* put_price with the cdf taken at d2 instead of -d2.
PutPriceSignSlip(current_price, discounted, d1, d2) ==
    FSub(FMul(discounted, FCdf(d2)), FMul(current_price, FCdf(FNeg(d1))))

\* put_price of calculate_prices.
PutPrice(current_price, discounted, d1, d2) ==
    FSub(FMul(discounted, FCdf(FNeg(d2))), FMul(current_price, FCdf(FNeg(d1))))

\* What calculate_prices leaves behind when current_price / strike raises:
\* no attribute is set and nothing is returned.
PricesRaised(exception) ==
    [ raised     |-> exception,
      call_price |-> Unset, put_price  |-> Unset,
      call_delta |-> Unset, put_delta  |-> Unset,
      call_gamma |-> Unset, put_gamma  |-> Unset ]

\* BlackScholes.calculate_prices on the object self: the exception raised,
\* if any, and the attributes it sets (the first four are also returned).
\* current_price / strike divides two Python floats, which raises on a zero
\* strike; every later division has a numpy operand and does not raise.
calculate_prices(self) ==
    IF IsFin(self.strike) /\ self.strike.v = 0
    THEN PricesRaised("ZeroDivisionError")
    ELSE
    LET time_to_maturity == self.time_to_maturity
        strike           == self.strike
        current_price    == self.current_price
        volatility       == self.volatility
        interest_rate    == self.interest_rate
        sqrt_t   == FSqrt(time_to_maturity)
        d1 == FDiv(FAdd(FLog(FDiv(current_price, strike)),
                        FMul(FAdd(interest_rate,
                                  FMul(F(SCALE \div 2), FMul(volatility, volatility))),
                             time_to_maturity)),
                   FMul(volatility, sqrt_t))
        d2 == FSub(d1, FMul(volatility, sqrt_t))
        discounted == FMul(strike, FExp(FNeg(FMul(interest_rate, time_to_maturity))))
        call_price == CallPrice(current_price, discounted, d1, d2)
        put_price  == PutPrice(current_price, discounted, d1, d2)
        call_gamma == FDiv(FPdf(d1), FMul(FMul(strike, volatility), sqrt_t))
    IN  [ raised     |-> "none",
          call_price |-> call_price,
          put_price  |-> put_price,
          call_delta |-> FCdf(d1),
          put_delta  |-> FSub(F(SCALE), FCdf(d1)),
          call_gamma |-> call_gamma,
          put_gamma  |-> call_gamma ]

\* ------------------------------------------------------------------------
\* equities_options_toolkit.py
\* ------------------------------------------------------------------------

\* The fallback the docstring of vix_dynamic_allocation names (default=20.0).
FallbackVixDocstring == F(20 * SCALE)

\* The value vix_dynamic_allocation uses when the fetch fails.
FallbackVix == F(15 * SCALE)

\* Series.round(2) on the latest close.
Round2(x) == IF IsFin(x) THEN F(((x.v + 50) \div 100) * 100) ELSE x

\* The try block of vix_dynamic_allocation: the rounded latest close, or the
\* fallback when the fetch raises or returns no rows.
CurrentVix(fetched) ==
    IF fetched.ok THEN Round2(fetched.close) ELSE FallbackVix

\* The tiers with each boundary value left in the lower tier.
AllocationPercentageLowerTier(current_vix) ==
    IF FLe(current_vix, F(15 * SCALE)) THEN F(2500)
    ELSE IF FLe(current_vix, F(20 * SCALE)) THEN F(3000)
    ELSE IF FLe(current_vix, F(30 * SCALE)) THEN F(3500)
    ELSE IF FLe(current_vix, F(40 * SCALE)) THEN F(4000)
    ELSE F(5000)

\* The allocation tiers of vix_dynamic_allocation.
AllocationPercentage(current_vix) ==
    IF FLt(current_vix, F(15 * SCALE)) THEN F(2500)
    ELSE IF FLe(F(15 * SCALE), current_vix) /\ FLt(current_vix, F(20 * SCALE))
         THEN F(3000)
    ELSE IF FLe(F(20 * SCALE), current_vix) /\ FLt(current_vix, F(30 * SCALE))
         THEN F(3500)
    ELSE IF FLe(F(30 * SCALE), current_vix) /\ FLt(current_vix, F(40 * SCALE))
         THEN F(4000)
    ELSE F(5000)

\* vix_dynamic_allocation(balance) when the fetch of ^VIX ends as fetched:
\* the value returned and the line printed.
vix_dynamic_allocation(balance, fetched) ==
    LET current_vix           == CurrentVix(fetched)
        allocation_percentage == AllocationPercentage(current_vix)
        allocation_value      == FMul(balance, allocation_percentage)
    IN  [ value   |-> allocation_value,
          printed |-> << "VIX", current_vix, allocation_percentage,
                         balance, allocation_value >> ]

\* The division pop / (1 - pop) of two Python floats raises when pop is 1.
KellyRaises(pop) == FSub(F(SCALE), pop) = F(0)

\* kelly_criterion_allocation(r, dte, pop), for pop # 1; dte is an int.
kelly_criterion_allocation(r, dte, pop) ==
    FMul(FMul(r, FDiv(F(dte * SCALE), F(365 * SCALE))),
         FDiv(pop, FSub(F(SCALE), pop)))

\* Series.sum(): the sum of the entries that are not NaN, 0.0 when none is.
RECURSIVE SeriesSum(_)
SeriesSum(series) ==
    IF series = << >> THEN F(0)
    ELSE IF IsNaN(Head(series)) THEN SeriesSum(Tail(series))
    ELSE FAdd(Head(series), SeriesSum(Tail(series)))

\* The column openInterest + volume of one side of a chain.
Weights(rows) ==
    [i \in DOMAIN rows |-> FAdd(rows[i].openInterest, rows[i].volume)]

\* The weighted average implied volatility of one side, a quotient of two
\* numpy sums.
WeightedAvgIv(rows) ==
    FDiv(SeriesSum([i \in DOMAIN rows |->
                       FMul(rows[i].impliedVolatility, Weights(rows)[i])]),
         SeriesSum(Weights(rows)))

\* calculate_weighted_cpivs once get_options_chain has returned chain_data.
calculate_weighted_cpivs(chain_data) ==
    FSub(WeightedAvgIv(chain_data.calls), WeightedAvgIv(chain_data.puts))

\* get_options_chain(ticker, expiration) on a market: the chain listed for
\* the ticker at that expiration; it raises (NoChain) when the ticker or the
\* expiration is not listed or the download fails.
get_options_chain(market, ticker, expiration) ==
    IF market[ticker].ok /\ expiration \in DOMAIN market[ticker].chains
    THEN market[ticker].chains[expiration]
    ELSE [ok |-> FALSE, calls |-> << >>, puts |-> << >>]

\* One element of cpiv_data.
CpivItem(ticker, expiration, cpiv) ==
    [Ticker |-> ticker, Expiration |-> expiration, CPIV |-> cpiv]

\* The line an except clause prints for a ticker.
ErrorLine(ticker) == << "Error processing", ticker >>

\* The inner loop of get_and_sort_cpivs_for_tickers for one ticker, from
\* expiration i on: items are appended until a computation raises, which
\* leaves the loop.
RECURSIVE ExpirationsLoop(_, _, _, _)
ExpirationsLoop(market, ticker, i, cpiv_data) ==
    IF i > Len(market[ticker].chains)
    THEN [cpiv_data |-> cpiv_data, raised |-> FALSE]
    ELSE LET chain_data == get_options_chain(market, ticker, i)
         IN  IF ~chain_data.ok
             THEN [cpiv_data |-> cpiv_data, raised |-> TRUE]
             ELSE ExpirationsLoop(market, ticker, i + 1,
                      Append(cpiv_data,
                             CpivItem(ticker, i,
                                      calculate_weighted_cpivs(chain_data))))

\* The loop over tickers of get_and_sort_cpivs_for_tickers: the try block
\* holds the fetch of the expirations and the whole inner loop.
RECURSIVE AllExpirationsLoop(_, _, _, _)
AllExpirationsLoop(market, tickers, cpiv_data, printed) ==
    IF tickers = << >>
    THEN [cpiv_data |-> cpiv_data, printed |-> printed]
    ELSE LET ticker == Head(tickers)
         IN  IF ~market[ticker].ok
             THEN AllExpirationsLoop(market, Tail(tickers), cpiv_data,
                                     Append(printed, ErrorLine(ticker)))
             ELSE LET out == ExpirationsLoop(market, ticker, 1, cpiv_data)
                  IN  AllExpirationsLoop(market, Tail(tickers), out.cpiv_data,
                          IF out.raised
                          THEN Append(printed, ErrorLine(ticker))
                          ELSE printed)

\* The loop over tickers of get_CPIVbyExpiration: the try block holds one
\* computation.
RECURSIVE OneExpirationLoop(_, _, _, _, _)
OneExpirationLoop(market, tickers, expiration, cpiv_data, printed) ==
    IF tickers = << >>
    THEN [cpiv_data |-> cpiv_data, printed |-> printed]
    ELSE LET ticker     == Head(tickers)
             chain_data == get_options_chain(market, ticker, expiration)
         IN  IF ~chain_data.ok
             THEN OneExpirationLoop(market, Tail(tickers), expiration,
                      cpiv_data, Append(printed, ErrorLine(ticker)))
             ELSE OneExpirationLoop(market, Tail(tickers), expiration,
                      Append(cpiv_data,
                             CpivItem(ticker, expiration,
                                      calculate_weighted_cpivs(chain_data))),
                      printed)

\* The sequence in reverse order.
Reverse(s) == [i \in 1..Len(s) |-> s[Len(s) + 1 - i]]

\* The comparison list.sort makes on two keys, the float <.
KeyLt(x, y) == FLt(x.CPIV, y.CPIV)

\* count_run of list.sort: the length of the run that starts the list, and
\* whether it is strictly descending.
RECURSIVE RunLength(_, _, _)
RunLength(s, n, descending) ==
    IF n = Len(s) THEN n
    ELSE IF KeyLt(s[n + 1], s[n]) = descending
         THEN RunLength(s, n + 1, descending)
         ELSE n

\* The place binarysort of list.sort inserts pivot in the sorted slice
\* s[l .. r-1]: right of every element that is not greater.
RECURSIVE InsertionPoint(_, _, _, _)
InsertionPoint(s, pivot, l, r) ==
    IF l >= r THEN l
    ELSE LET p == l + ((r - l) \div 2)
         IN  IF KeyLt(pivot, s[p])
             THEN InsertionPoint(s, pivot, l, p)
             ELSE InsertionPoint(s, pivot, p + 1, r)

\* binarysort of list.sort: s[1 .. start-1] is sorted, the others are
\* inserted one by one.
RECURSIVE BinarySort(_, _)
BinarySort(s, start) ==
    IF start > Len(s) THEN s
    ELSE LET pivot == s[start]
             l     == InsertionPoint(s, pivot, 1, start)
         IN  BinarySort([i \in 1..Len(s) |->
                            IF i < l \/ i > start THEN s[i]
                            ELSE IF i = l THEN pivot
                            ELSE s[i - 1]],
                        start + 1)

\* list.sort on fewer than 64 elements: the first run, reversed when it is
\* descending, is extended to the whole list by binarysort.
ListSort(s) ==
    IF Len(s) < 2 THEN s
    ELSE LET descending == KeyLt(s[2], s[1])
             n          == RunLength(s, 2, descending)
             run        == IF descending
                           THEN [i \in 1..Len(s) |->
                                    IF i <= n THEN s[n + 1 - i] ELSE s[i]]
                           ELSE s
         IN  BinarySort(run, n + 1)

\* sorted(cpiv_data, key=lambda x: x['CPIV'], reverse=True): list.sort
\* reverses the list, sorts it ascending and reverses it again.
SortedByCpivReverse(cpiv_data) == Reverse(ListSort(Reverse(cpiv_data)))

\* The lines printed for the sorted items.
ItemLines(sorted_cpiv_data) ==
    [i \in 1..Len(sorted_cpiv_data) |->
        << sorted_cpiv_data[i].Ticker, sorted_cpiv_data[i].Expiration,
           sorted_cpiv_data[i].CPIV >>]

\* get_and_sort_cpivs_for_tickers(tickers) on a market: the list returned
\* and the lines printed.
get_and_sort_cpivs_for_tickers(market, tickers) ==
    LET out              == AllExpirationsLoop(market, tickers, << >>, << >>)
        sorted_cpiv_data == SortedByCpivReverse(out.cpiv_data)
    IN  [ ret     |-> sorted_cpiv_data,
          printed |-> out.printed \o ItemLines(sorted_cpiv_data) ]

\* get_CPIVbyExpiration(tickers, expiration) on a market: the list returned
\* and the lines printed.
get_CPIVbyExpiration(market, tickers, expiration) ==
    LET out              == OneExpirationLoop(market, tickers, expiration,
                                              << >>, << >>)
        sorted_cpiv_data == SortedByCpivReverse(out.cpiv_data)
    IN  [ ret     |-> sorted_cpiv_data,
          printed |-> out.printed \o ItemLines(sorted_cpiv_data) ]

\* ------------------------------------------------------------------------
\* The script of BS_streamlit_app.py
\* ------------------------------------------------------------------------

\* kelly_allocation without the cap.
KellyAllocationUncapped(kelly_fraction, account_size, max_premium_allocation) ==
    FMul(kelly_fraction, account_size)

\* kelly_allocation, line 192.
KellyAllocation(kelly_fraction, account_size, max_premium_allocation) ==
    PyMin(FMul(kelly_fraction, account_size), max_premium_allocation)

\* max_contracts with math.floor in place of int().
MaxContractsFloor(kelly_allocation, current_option_value) ==
    IF FLt(F(0), current_option_value)
    THEN Floor(FDiv(kelly_allocation,
                    FMul(current_option_value, F(100 * SCALE))))
    ELSE 0

\* max_contracts, lines 198-201.
MaxContracts(kelly_allocation, current_option_value) ==
    IF FLt(F(0), current_option_value)
    THEN IntTrunc(FDiv(kelly_allocation,
                       FMul(current_option_value, F(100 * SCALE))))
    ELSE 0

\* numpy.linspace(start, stop, num) for num >= 2.
Linspace(start, stop, num) ==
    LET step == FDiv(FSub(stop, start), F((num - 1) * SCALE))
    IN  [i \in 1..num |->
            IF i = num THEN stop
            ELSE FAdd(FMul(F((i - 1) * SCALE), step), start)]

\* One cell of the matrices of plot_heatmap: the option priced at spot and
\* vol, as a price or as the P&L against the initial price.
HeatmapCell(price, initial, position_units, viz_type) ==
    IF viz_type = "Position P&L"
    THEN FMul(FMul(FSub(price, initial), F(position_units * SCALE)),
              F(100 * SCALE))
    ELSE price

\* The model plot_heatmap prices a cell with.
HeatmapModel(bs_model, strike, spot, vol) ==
    BlackScholes(bs_model.time_to_maturity, strike, spot, vol,
                 bs_model.interest_rate)

\* plot_heatmap: the two matrices, rows by vol_range, columns by
\* spot_range.
plot_heatmap(bs_model, spot_range, vol_range, strike, position_units, viz_type) ==
    LET initial == calculate_prices(
                       HeatmapModel(bs_model, strike, bs_model.current_price,
                                    bs_model.volatility))
        temp(i, j) == calculate_prices(
                       HeatmapModel(bs_model, strike, spot_range[j], vol_range[i]))
    IN  [ call_matrix |->
            [i \in DOMAIN vol_range |-> [j \in DOMAIN spot_range |->
                HeatmapCell(temp(i, j).call_price, initial.call_price,
                            position_units, viz_type)]],
          put_matrix |->
            [i \in DOMAIN vol_range |-> [j \in DOMAIN spot_range |->
                HeatmapCell(temp(i, j).put_price, initial.put_price,
                            position_units, viz_type)]] ]

\* ------------------------------------------------------------------------
\* State
\* ------------------------------------------------------------------------

VARIABLES
    pc,                      \* how far the script has run
    error,                   \* the exception that ended the run, or "none"
    stdout,                  \* the last line printed
    current_price,           \* sidebar inputs, lines 139-143
    strike,
    time_to_maturity,        \* in days, an int
    volatility,
    interest_rate,
    initial_bs,              \* the sidebar's BlackScholes object, line 146
    initial_call,
    initial_put,
    account_size,
    max_premium_allocation,
    prob_profit,
    kelly_fraction,
    kelly_allocation,
    current_option_value,
    max_contracts,
    position_units,
    viz_type,
    spot_range,
    vol_range,
    bs_model,                \* the main page's BlackScholes object, line 365
    call_matrix,             \* the matrices plot_heatmap fills
    put_matrix,
    call                     \* the last direct call of a toolkit function

vars == << pc, error, stdout, current_price, strike, time_to_maturity,
           volatility, interest_rate, initial_bs, initial_call, initial_put,
           account_size, max_premium_allocation, prob_profit, kelly_fraction,
           kelly_allocation, current_option_value, max_contracts,
           position_units, viz_type, spot_range, vol_range, bs_model,
           call_matrix, put_matrix, call >>

pricing_vars == << current_price, strike, time_to_maturity, volatility,
                   interest_rate, initial_bs, initial_call, initial_put >>

sizing_vars == << account_size, max_premium_allocation, prob_profit,
                  kelly_fraction, kelly_allocation, current_option_value,
                  max_contracts >>

heatmap_vars == << position_units, viz_type, spot_range, vol_range, bs_model,
                   call_matrix, put_matrix >>

\* Number of points on each axis of the heatmap (10 in the script).
GridPoints == 2

\* Values entered in the sidebar's widgets.
CurrentPriceInputs == {F(0), F(90 * SCALE), F(100 * SCALE)}

StrikeInputs == {F(-100 * SCALE), F(0), F(100 * SCALE)}

DaysInputs == {45, 365}

VolatilityInputs == {F(0), F(2000), F(3000)}

RateInputs == {F(-500), F(500)}

AccountSizes == {F(10000 * SCALE)}

ProbProfits == {F(0), F(7000), F(9900), F(SCALE)}

PositionUnits == {1, 2}

VizTypes == {"Option Prices", "Position P&L"}

SpotMins == {F(80 * SCALE), F(100 * SCALE)}

SpotMaxs == {F(120 * SCALE)}

VolMins == {F(2000)}

VolMaxs == {F(3000)}

\* Outcomes of fetching the latest ^VIX close: a close, or no data.
NoVixData == [ok |-> FALSE, close |-> NaN]

VixClose(x) == [ok |-> TRUE, close |-> F(x)]

VixFetches == {NoVixData, VixClose(149960), VixClose(25 * SCALE)}

\* A BlackScholes object: the attributes __init__ sets and those
\* calculate_prices sets.
Object(self, prices) ==
    [ time_to_maturity |-> self.time_to_maturity,
      strike           |-> self.strike,
      current_price    |-> self.current_price,
      volatility       |-> self.volatility,
      interest_rate    |-> self.interest_rate,
      call_price       |-> prices.call_price,
      put_price        |-> prices.put_price,
      call_delta       |-> prices.call_delta,
      put_delta        |-> prices.put_delta,
      call_gamma       |-> prices.call_gamma,
      put_gamma        |-> prices.put_gamma ]

NoCall == [fn |-> "none"]

Init ==
    /\ pc = "start"
    /\ error = "none"
    /\ stdout = << >>
    /\ current_price = Unset
    /\ strike = Unset
    /\ time_to_maturity = 0
    /\ volatility = Unset
    /\ interest_rate = Unset
    /\ initial_bs = Unset
    /\ initial_call = Unset
    /\ initial_put = Unset
    /\ account_size = Unset
    /\ max_premium_allocation = Unset
    /\ prob_profit = Unset
    /\ kelly_fraction = Unset
    /\ kelly_allocation = Unset
    /\ current_option_value = Unset
    /\ max_contracts = 0
    /\ position_units = 0
    /\ viz_type = "none"
    /\ spot_range = << >>
    /\ vol_range = << >>
    /\ bs_model = Unset
    /\ call_matrix = << >>
    /\ put_matrix = << >>
    /\ call = NoCall

\* ------------------------------------------------------------------------
\* The script, top to bottom
\* ------------------------------------------------------------------------

\* Lines 139-153: the five contract inputs and the initial prices.  An
\* exception ends the run.
PriceInitial ==
    /\ pc = "start"
    /\ \E cp \in CurrentPriceInputs, k \in StrikeInputs, t \in DaysInputs,
          v \in VolatilityInputs, r \in RateInputs :
          LET bs     == BlackScholes(F(t * SCALE), k, cp, v, r)
              prices == calculate_prices(bs)
          IN  /\ current_price' = cp
              /\ strike' = k
              /\ time_to_maturity' = t
              /\ volatility' = v
              /\ interest_rate' = r
              /\ initial_bs' = Object(bs, prices)
              /\ IF prices.raised # "none"
                 THEN /\ pc' = "crashed"
                      /\ error' = prices.raised
                      /\ UNCHANGED << initial_call, initial_put >>
                 ELSE /\ pc' = "priced"
                      /\ initial_call' = prices.call_price
                      /\ initial_put' = prices.put_price
                      /\ UNCHANGED error
    /\ UNCHANGED << stdout, sizing_vars, heatmap_vars, call >>

\* Lines 160-178: the account size and the VIX-based premium allocation.
PremiumAllocation ==
    /\ pc = "priced"
    /\ \E a \in AccountSizes, fetched \in VixFetches :
          LET out == vix_dynamic_allocation(a, fetched)
          IN  /\ account_size' = a
              /\ max_premium_allocation' = out.value
              /\ stdout' = out.printed
    /\ pc' = "allocated"
    /\ UNCHANGED << error, pricing_vars, prob_profit, kelly_fraction,
                    kelly_allocation, current_option_value, max_contracts,
                    heatmap_vars, call >>

\* Lines 181-194: the probability of profit, the Kelly fraction and the
\* Kelly allocation.
KellySizing ==
    /\ pc = "allocated"
    /\ \E p \in ProbProfits :
          /\ prob_profit' = p
          /\ IF KellyRaises(p)
             THEN /\ pc' = "crashed"
                  /\ error' = "ZeroDivisionError"
                  /\ UNCHANGED << stdout, kelly_fraction, kelly_allocation >>
             ELSE LET f == kelly_criterion_allocation(interest_rate,
                                                      time_to_maturity, p)
                  IN  /\ kelly_fraction' = f
                      /\ stdout' = << "Kelly Criterion Position Size", f >>
                      /\ kelly_allocation' =
                             KellyAllocation(f, account_size,
                                             max_premium_allocation)
                      /\ pc' = "kelly"
                      /\ UNCHANGED error
    /\ UNCHANGED << pricing_vars, account_size, max_premium_allocation,
                    current_option_value, max_contracts, heatmap_vars, call >>

\* Lines 196-201: the recommended number of contracts.
RecommendContracts ==
    /\ pc = "kelly"
    /\ current_option_value' = PyMin(initial_call, initial_put)
    /\ max_contracts' = MaxContracts(kelly_allocation, current_option_value')
    /\ pc' = "sized"
    /\ UNCHANGED << error, stdout, pricing_vars, account_size,
                    max_premium_allocation, prob_profit, kelly_fraction,
                    kelly_allocation, heatmap_vars, call >>

\* The defaults of the four heatmap widgets lie in the widgets' ranges:
\* 0.8 and 1.2 times the price are at least 0.01, 0.5 and 1.5 times the
\* volatility are in [0.01, 1.0].  Streamlit raises otherwise.
WidgetDefaultsInRange ==
    /\ FLe(F(100), FMul(current_price, F(8000)))
    /\ FLe(F(100), FMul(current_price, F(12000)))
    /\ FLe(F(100), FMul(volatility, F(5000)))
    /\ FLe(FMul(volatility, F(5000)), F(SCALE))
    /\ FLe(F(100), FMul(volatility, F(15000)))
    /\ FLe(FMul(volatility, F(15000)), F(SCALE))

\* Lines 203-229: the position size, the visualization type and the axes
\* of the heatmap.
HeatmapInputs ==
    /\ pc = "sized"
    /\ IF ~WidgetDefaultsInRange
       THEN /\ pc' = "crashed"
            /\ error' = "StreamlitAPIException"
            /\ UNCHANGED << position_units, viz_type, spot_range, vol_range >>
       ELSE /\ \E u \in PositionUnits, vt \in VizTypes,
                  spot_min \in SpotMins, spot_max \in SpotMaxs,
                  vol_min \in VolMins, vol_max \in VolMaxs :
                  /\ position_units' = u
                  /\ viz_type' = vt
                  /\ spot_range' = Linspace(spot_min, spot_max, GridPoints)
                  /\ vol_range' = Linspace(vol_min, vol_max, GridPoints)
            /\ pc' = "grid"
            /\ UNCHANGED error
    /\ UNCHANGED << stdout, pricing_vars, sizing_vars, bs_model, call_matrix,
                    put_matrix, call >>

\* Lines 347-420: the main page prices the contract again and draws the
\* two heatmaps.
MainPage ==
    /\ pc = "grid"
    /\ LET bs     == BlackScholes(F(time_to_maturity * SCALE), strike,
                                  current_price, volatility, interest_rate)
           prices == calculate_prices(bs)
           model  == Object(bs, prices)
           maps   == plot_heatmap(model, spot_range, vol_range, strike,
                                  position_units, viz_type)
       IN  /\ bs_model' = model
           /\ IF prices.raised # "none"
              THEN /\ pc' = "crashed"
                   /\ error' = prices.raised
                   /\ UNCHANGED << call_matrix, put_matrix >>
              ELSE /\ call_matrix' = maps.call_matrix
                   /\ put_matrix' = maps.put_matrix
                   /\ pc' = "done"
                   /\ UNCHANGED error
    /\ UNCHANGED << stdout, pricing_vars, sizing_vars, position_units,
                    viz_type, spot_range, vol_range, call >>

Next ==
    \/ PriceInitial
    \/ PremiumAllocation
    \/ KellySizing
    \/ RecommendContracts
    \/ HeatmapInputs
    \/ MainPage

Spec == Init /\ [][Next]_vars

\* ------------------------------------------------------------------------
\* The toolkit's functions called directly: one call, from the initial
\* state, of one function
\* ------------------------------------------------------------------------

\* Longest side of an options chain.
MaxRows == 2

ToolkitBalances == {F(100 * SCALE), F(5000 * SCALE), F(10000 * SCALE)}

ToolkitVixFetches ==
    {NoVixData} \cup
    {VixClose(x) : x \in {100000, 149900, 149960, 150000, 199900, 200000,
                          250000, 299900, 300000, 399900, 400000, 550000}}

ToolkitRates == {F(-500), F(500)}

ToolkitDays == {45, 365}

ToolkitProbs == {F(0), F(5000), F(7000), F(9900), F(SCALE)}

\* Rows of a chain: implied volatility, open interest, volume (yfinance
\* reports a missing volume as NaN).
ChainRows ==
    { [impliedVolatility |-> F(2000), openInterest |-> F(0), volume |-> F(0)],
      [impliedVolatility |-> F(3000), openInterest |-> F(10 * SCALE),
       volume |-> F(5 * SCALE)],
      [impliedVolatility |-> F(2500), openInterest |-> F(0), volume |-> NaN] }

ChainSides == UNION {[1..n -> ChainRows] : n \in 0..MaxRows}

\* Outcomes of get_options_chain: it raises, or returns the two sides.
NoChain == [ok |-> FALSE, calls |-> << >>, puts |-> << >>]

ChainFetches ==
    {NoChain} \cup
    {[ok |-> TRUE, calls |-> c, puts |-> p] : c \in ChainSides, p \in ChainSides}

\* vix_dynamic_allocation(balance), lines 118-154.
CallVixDynamicAllocation ==
    /\ pc = "start"
    /\ \E balance \in ToolkitBalances, fetched \in ToolkitVixFetches :
          LET out == vix_dynamic_allocation(balance, fetched)
          IN  /\ call' = [ fn      |-> "vix_dynamic_allocation",
                           balance |-> balance,
                           fetched |-> fetched,
                           raised  |-> "none",
                           ret     |-> out.value ]
              /\ stdout' = out.printed
    /\ pc' = "returned"
    /\ UNCHANGED << error, pricing_vars, sizing_vars, heatmap_vars >>

\* kelly_criterion_allocation(r, dte, pop), lines 233-239.
CallKellyCriterionAllocation ==
    /\ pc = "start"
    /\ \E r \in ToolkitRates, dte \in ToolkitDays, pop \in ToolkitProbs :
          IF KellyRaises(pop)
          THEN /\ call' = [ fn  |-> "kelly_criterion_allocation",
                            r   |-> r, dte |-> dte, pop |-> pop,
                            raised |-> "ZeroDivisionError",
                            ret    |-> Unset ]
               /\ UNCHANGED stdout
          ELSE LET f == kelly_criterion_allocation(r, dte, pop)
               IN  /\ call' = [ fn  |-> "kelly_criterion_allocation",
                                r   |-> r, dte |-> dte, pop |-> pop,
                                raised |-> "none",
                                ret    |-> f ]
                   /\ stdout' = << "Kelly Criterion Position Size", f >>
    /\ pc' = "returned"
    /\ UNCHANGED << error, pricing_vars, sizing_vars, heatmap_vars >>

\* calculate_weighted_cpivs(ticker, expiration), lines 43-66.
CallCalculateWeightedCpivs ==
    /\ pc = "start"
    /\ \E chain_data \in ChainFetches :
          call' = [ fn         |-> "calculate_weighted_cpivs",
                    chain_data |-> chain_data,
                    raised     |-> IF chain_data.ok THEN "none" ELSE "Exception",
                    ret        |-> IF chain_data.ok
                                   THEN calculate_weighted_cpivs(chain_data)
                                   ELSE Unset ]
    /\ pc' = "returned"
    /\ UNCHANGED << error, stdout, pricing_vars, sizing_vars, heatmap_vars >>

ToolkitNext ==
    \/ CallVixDynamicAllocation
    \/ CallKellyCriterionAllocation
    \/ CallCalculateWeightedCpivs

SpecToolkit == Init /\ [][ToolkitNext]_vars

\* ------------------------------------------------------------------------
\* The CPIV rankings of the toolkit called directly on a market: one call,
\* from the initial state
\* ------------------------------------------------------------------------

\* Longest list of tickers passed to a ranking.
MaxTickers == 2

\* Most expirations listed for one ticker.
MaxExpirations == 2

RankingTickers == {"A", "B"}

\* A row with weight 15 and the implied volatility iv.
WeightedRow(iv) ==
    [impliedVolatility |-> F(iv), openInterest |-> F(10 * SCALE),
     volume |-> F(5 * SCALE)]

\* A row with no open interest and no volume.
ZeroWeightRow ==
    [impliedVolatility |-> F(2000), openInterest |-> F(0), volume |-> F(0)]

\* Outcomes of get_options_chain inside a ranking: it raises, or the chain
\* has CPIV 0.1, CPIV -0.1, or no weight on the call side.
RankingChains ==
    { NoChain,
      [ok |-> TRUE, calls |-> << WeightedRow(3000) >>,
       puts |-> << WeightedRow(2000) >>],
      [ok |-> TRUE, calls |-> << WeightedRow(2000) >>,
       puts |-> << WeightedRow(3000) >>],
      [ok |-> TRUE, calls |-> << ZeroWeightRow >>,
       puts |-> << WeightedRow(2000) >>] }

\* What yfinance has for one ticker: Ticker(ticker).options raises, or it
\* lists expirations 1..n, each with the outcome of fetching its chain.
Listings ==
    {[ok |-> FALSE, chains |-> << >>]} \cup
    {[ok |-> TRUE, chains |-> c] :
        c \in UNION {[1..n -> RankingChains] : n \in 0..MaxExpirations}}

Markets == [RankingTickers -> Listings]

TickerLists == UNION {[1..n -> RankingTickers] : n \in 0..MaxTickers}

\* get_and_sort_cpivs_for_tickers(tickers), lines 68-92; expiration 0 in the
\* record of the call stands for all expirations.
CallGetAndSortCpivsForTickers ==
    /\ pc = "start"
    /\ \E market \in Markets, tickers \in TickerLists :
          LET out == get_and_sort_cpivs_for_tickers(market, tickers)
          IN  /\ call' = [ fn         |-> "get_and_sort_cpivs_for_tickers",
                           market     |-> market,
                           tickers    |-> tickers,
                           expiration |-> 0,
                           raised     |-> "none",
                           ret        |-> out.ret ]
              /\ stdout' = out.printed
    /\ pc' = "returned"
    /\ UNCHANGED << error, pricing_vars, sizing_vars, heatmap_vars >>

\* get_CPIVbyExpiration(tickers, expiration), lines 94-116.
CallGetCPIVbyExpiration ==
    /\ pc = "start"
    /\ \E market \in Markets, tickers \in TickerLists,
          expiration \in 1..MaxExpirations :
          LET out == get_CPIVbyExpiration(market, tickers, expiration)
          IN  /\ call' = [ fn         |-> "get_CPIVbyExpiration",
                           market     |-> market,
                           tickers    |-> tickers,
                           expiration |-> expiration,
                           raised     |-> "none",
                           ret        |-> out.ret ]
              /\ stdout' = out.printed
    /\ pc' = "returned"
    /\ UNCHANGED << error, pricing_vars, sizing_vars, heatmap_vars >>

RankingNext ==
    \/ CallGetAndSortCpivsForTickers
    \/ CallGetCPIVbyExpiration

SpecRanking == Init /\ [][RankingNext]_vars

\* ------------------------------------------------------------------------
\* Properties
\* ------------------------------------------------------------------------

\* The contract parameters of a BlackScholes object are valid: T > 0,
\* strike > 0, spot > 0, volatility > 0.
ValidContract(self) ==
    /\ FLt(F(0), self.time_to_maturity)
    /\ FLt(F(0), self.strike)
    /\ FLt(F(0), self.current_price)
    /\ FLt(F(0), self.volatility)

\* The heatmap has been drawn.
HeatmapDrawn == pc = "done"

\* The engine's prices for the baseline model's own time to maturity (in
\* years), strike and rate, at the given spot and volatility.
Repriced(spot, vol) ==
    calculate_prices([bs_model EXCEPT !.current_price = spot,
                                      !.volatility = vol])

\* C1: in 'Option Prices' mode plot_heatmap fills two M x N matrices, M the
\* length of vol_range and N the length of spot_range, and cell (i, j) is
\* the call / put price the engine returns for spot_range[j], vol_range[i]
\* and the baseline model's own time to maturity in years, strike and rate.
C1_RawPriceCellsMatchEngine ==
    (HeatmapDrawn /\ viz_type = "Option Prices") =>
        /\ Len(call_matrix) = Len(vol_range)
        /\ Len(put_matrix) = Len(vol_range)
        /\ \A i \in DOMAIN vol_range :
              /\ Len(call_matrix[i]) = Len(spot_range)
              /\ Len(put_matrix[i]) = Len(spot_range)
              /\ \A j \in DOMAIN spot_range :
                    /\ call_matrix[i][j] =
                           Repriced(spot_range[j], vol_range[i]).call_price
                    /\ put_matrix[i][j] =
                           Repriced(spot_range[j], vol_range[i]).put_price

\* call - put and spot - strike * exp(-rate * T) are finite and differ by
\* at most two units of the last decimal (each side rounds two products).
Parity(call_price, put_price, self) ==
    LET lhs == FSub(call_price, put_price)
        rhs == FSub(self.current_price,
                    FMul(self.strike,
                         FExp(FNeg(FMul(self.interest_rate,
                                        self.time_to_maturity)))))
    IN  /\ IsFin(lhs)
        /\ IsFin(rhs)
        /\ Abs(lhs.v - rhs.v) <= 2

\* C2: for valid contract parameters the prices calculate_prices returns
\* satisfy put-call parity within rounding: for the sidebar's model, and in
\* 'Option Prices' mode for the model of every cell of the heatmap.
C2_PutCallParity ==
    /\ (pc \notin {"start", "crashed"} /\ ValidContract(initial_bs)) =>
           Parity(initial_call, initial_put, initial_bs)
    /\ (HeatmapDrawn /\ viz_type = "Option Prices") =>
           \A i \in DOMAIN vol_range, j \in DOMAIN spot_range :
              LET cell == HeatmapModel(bs_model, strike, spot_range[j],
                                       vol_range[i])
              IN  ValidContract(cell) =>
                      Parity(call_matrix[i][j], put_matrix[i][j], cell)

\* A valid contract has been priced in the sidebar, with distinct positive
\* call and put prices.
C2_Witness ==
    /\ pc = "priced"
    /\ ValidContract(initial_bs)
    /\ FLt(F(0), initial_call)
    /\ FLt(F(0), initial_put)
    /\ initial_call # initial_put

\* The sidebar's inputs violate a precondition of the pricing operation.
InvalidInputs ==
    \/ time_to_maturity <= 0
    \/ FLe(strike, F(0))
    \/ FLe(current_price, F(0))
    \/ FLe(volatility, F(0))

\* No attribute of the pricing result is set on the object.
NothingStored(self) ==
    /\ self.call_price = Unset
    /\ self.put_price = Unset
    /\ self.call_delta = Unset
    /\ self.put_delta = Unset
    /\ self.call_gamma = Unset
    /\ self.put_gamma = Unset

\* C3: pricing an input with time to maturity <= 0, strike <= 0, spot <= 0
\* or volatility <= 0 ends with an InvalidParameter error, and no result
\* (inf, NaN or other) is returned or stored on the object.
C3_InvalidInputsRejected ==
    (pc # "start" /\ InvalidInputs) =>
        /\ error = "InvalidParameter"
        /\ NothingStored(initial_bs)
        /\ initial_call = Unset
        /\ initial_put = Unset

\* C4: in 'Position P&L' mode every cell is (cell price - baseline price)
\* x position_units x 100, the baseline price being computed once from the
\* baseline model, and every cell whose spot and volatility are the
\* baseline model's own is 0, for calls and for puts.
C4_PnLCellsRelativeToBaseline ==
    (HeatmapDrawn /\ viz_type = "Position P&L") =>
        LET baseline == calculate_prices(
                            HeatmapModel(bs_model, strike,
                                         bs_model.current_price,
                                         bs_model.volatility))
        IN  \A i \in DOMAIN vol_range, j \in DOMAIN spot_range :
              LET cell == calculate_prices(
                              HeatmapModel(bs_model, strike, spot_range[j],
                                           vol_range[i]))
              IN  /\ call_matrix[i][j] =
                         FMul(FMul(FSub(cell.call_price, baseline.call_price),
                                   F(position_units * SCALE)),
                              F(100 * SCALE))
                  /\ put_matrix[i][j] =
                         FMul(FMul(FSub(cell.put_price, baseline.put_price),
                                   F(position_units * SCALE)),
                              F(100 * SCALE))
                  /\ (/\ spot_range[j] = bs_model.current_price
                      /\ vol_range[i] = bs_model.volatility) =>
                         /\ call_matrix[i][j] = F(0)
                         /\ put_matrix[i][j] = F(0)

\* The percentage (in units of SCALE) the tier table gives the index v.
TierPercentage(v) ==
    IF v < 15 * SCALE THEN 2500
    ELSE IF v < 20 * SCALE THEN 3000
    ELSE IF v < 30 * SCALE THEN 3500
    ELSE IF v < 40 * SCALE THEN 4000
    ELSE 5000

\* vix_dynamic_allocation has been called directly and has returned.
VixCalled == pc = "returned" /\ call.fn = "vix_dynamic_allocation"

\* The index value the call used, as printed.
VixUsed == stdout[2]

KellyComputed == pc \in {"kelly", "sized", "grid", "done"}

\* C6: whenever a Kelly fraction is computed, the Kelly allocation is the
\* smaller of kelly_fraction x balance and the volatility tier cap, and so
\* never exceeds the cap.
C6_KellyCappedByTier ==
    KellyComputed =>
        LET uncapped == FMul(kelly_fraction, account_size)
        IN  /\ kelly_allocation \in {uncapped, max_premium_allocation}
            /\ FLe(kelly_allocation, uncapped)
            /\ FLe(kelly_allocation, max_premium_allocation)

\* Kelly's raw suggestion exceeds the cap, and the cap is what is allocated.
C6_Witness ==
    /\ pc = "kelly"
    /\ FLt(max_premium_allocation, FMul(kelly_fraction, account_size))
    /\ kelly_allocation = max_premium_allocation

\* The script has computed the recommended number of contracts.
ContractsComputed == pc \in {"sized", "grid", "done"}

\* allocation / (option price x 100), for a positive option price.
ContractsQuotient ==
    FDiv(kelly_allocation, FMul(current_option_value, F(100 * SCALE)))

\* The integer part of a finite float, rounding toward zero.
TowardZero(x) == IF x.v >= 0 THEN x.v \div SCALE ELSE -((-x.v) \div SCALE)

C8_ContractsNonNegative ==
    ContractsComputed => (max_contracts \in Int /\ max_contracts >= 0)

\* kelly_criterion_allocation has been called directly.
KellyCalled == pc = "returned" /\ call.fn = "kelly_criterion_allocation"

\* C9: kelly_criterion_allocation is defined exactly on 0 <= p < 1: it
\* returns a fraction there, 0 for p = 0, and for p = 1 it fails with an
\* InvalidParameter error and returns nothing.
C9_KellyDomain ==
    KellyCalled =>
        /\ (FLe(F(0), call.pop) /\ FLt(call.pop, F(SCALE))) =>
               (call.raised = "none" /\ IsFin(call.ret))
        /\ call.pop = F(0) => call.ret = F(0)
        /\ call.pop = F(SCALE) =>
               (call.raised = "InvalidParameter" /\ call.ret = Unset)

\* calculate_weighted_cpivs has been called directly and the chain fetched.
CpivCalled ==
    /\ pc = "returned"
    /\ call.fn = "calculate_weighted_cpivs"
    /\ call.chain_data.ok

\* One side of a chain is empty or its weights sum to zero.
NoWeight(rows) == rows = << >> \/ SeriesSum(Weights(rows)) = F(0)

\* C10: when the call rows or the put rows are empty or their weights sum
\* to zero, the CPIV computation fails with an EmptyOrZeroWeight error and
\* returns neither NaN nor any number.
C10_EmptyOrZeroWeightRejected ==
    (CpivCalled /\ (NoWeight(call.chain_data.calls)
                    \/ NoWeight(call.chain_data.puts))) =>
        /\ call.raised = "EmptyOrZeroWeight"
        /\ call.ret = Unset

\* vix_dynamic_allocation has been called directly and the index could not
\* be obtained.
VixUnavailable == VixCalled /\ ~call.fetched.ok

RankingCalled ==
    /\ pc = "returned"
    /\ call.fn \in {"get_and_sort_cpivs_for_tickers", "get_CPIVbyExpiration"}

\* The (position in tickers, expiration) entries the call ranks: every
\* listed expiration of every ticker, or the one expiration asked for.
RankingEntries ==
    IF call.fn = "get_and_sort_cpivs_for_tickers"
    THEN {<<k, e>> : k \in DOMAIN call.tickers, e \in 1..MaxExpirations} \cap
         {en \in (DOMAIN call.tickers) \X (1..MaxExpirations) :
             /\ call.market[call.tickers[en[1]]].ok
             /\ en[2] \in DOMAIN call.market[call.tickers[en[1]]].chains}
    ELSE {<<k, call.expiration>> : k \in DOMAIN call.tickers}

\* The chain fetched for an entry.
EntryChain(en) == get_options_chain(call.market, call.tickers[en[1]], en[2])

\* The CPIV computation of an entry succeeds: nothing is raised.
EntrySucceeds(en) == EntryChain(en).ok

\* The result of an entry whose computation succeeds.
EntryResult(en) ==
    CpivItem(call.tickers[en[1]], en[2],
             calculate_weighted_cpivs(EntryChain(en)))

\* C11: a CPIV ranking raises nothing and returns exactly the results of the
\* entries whose computation succeeded, each once; every failing entry is
\* skipped and reported, and removes no other entry, other expirations of
\* the same ticker included.
C11_FailuresIsolatedPerEntry ==
    RankingCalled =>
        /\ call.raised = "none"
        /\ \A item \in {EntryResult(en) : en \in {x \in RankingEntries :
                                                     EntrySucceeds(x)}}
                       \cup {call.ret[i] : i \in DOMAIN call.ret} :
              Cardinality({i \in DOMAIN call.ret : call.ret[i] = item})
                  = Cardinality({en \in RankingEntries :
                                    /\ EntrySucceeds(en)
                                    /\ EntryResult(en) = item})
        /\ \A en \in RankingEntries :
              ~EntrySucceeds(en) =>
                  \E i \in DOMAIN stdout :
                      stdout[i] = ErrorLine(call.tickers[en[1]])

\* The list the ranking built before sorting it, in processing order.
RankingProcessed ==
    IF call.fn = "get_and_sort_cpivs_for_tickers"
    THEN AllExpirationsLoop(call.market, call.tickers, << >>, << >>).cpiv_data
    ELSE OneExpirationLoop(call.market, call.tickers, call.expiration,
                           << >>, << >>).cpiv_data

\* The items of a list whose CPIV is cpiv, in the order of the list.
WithCpiv(items, cpiv) ==
    LET Test(item) == item.CPIV = cpiv
    IN  SelectSeq(items, Test)

\* C12: the list a CPIV ranking returns is in descending order of CPIV (no
\* result comes before one with a greater CPIV), and results of equal CPIV
\* keep the order in which they were processed.
C12_DescendingStable ==
    RankingCalled =>
        /\ \A i, j \in DOMAIN call.ret :
              i < j => ~FLt(call.ret[i].CPIV, call.ret[j].CPIV)
        /\ \A i \in DOMAIN call.ret :
              ~IsNaN(call.ret[i].CPIV) =>
                  WithCpiv(call.ret, call.ret[i].CPIV)
                      = WithCpiv(RankingProcessed, call.ret[i].CPIV)

=============================================================================
